---- MODULE Spec2Model ----
(***************************************************************************)
(* Model of the HostlistsRegistry build: the hostlist builder (build,      *)
(* makeRevision, calculateRevisionHash, replaceExpires, parseInfo,         *)
(* loadLocales) and the entry script index.js (buildServices, main).       *)
(*                                                                         *)
(* JavaScript strings are sequences of one-character strings, so that      *)
(* startsWith, indexOf, substring, parseInt and join are computed as the   *)
(* runtime computes them.  JavaScript values of different types are kept   *)
(* apart by records with different field names.                            *)
(***************************************************************************)
EXTENDS Integers, Sequences, FiniteSets, TLC

VARIABLES
    \* ---- files on disk
    metadata,            \* metadata.json of every list directory (index -> record)
    configuration,       \* configuration.json of every list: its sources
    revisionFile,        \* revision.json of every list, or NoFile
    filterFile,          \* filter.txt of every list, or NoFile
    assetsFilterFile,    \* assets/filter_<id>.txt of every list, or NoFile
    servicesFile,        \* assets/services.json
    filtersMetadataFile,     \* assets/filters.json, or NoFile
    filtersMetadataDevFile,  \* assets/filters-dev.json, or NoFile
    filtersI18nFile,         \* assets/filters_i18n.json, or NoFile
    sourceFragments,     \* ids of the services that have a source file
    \* ---- the running process (index.js)
    pc,                  \* position of the process
    i,                   \* index of filterDir in the loop of build
    filtersMetadata,     \* build's local array filtersMetadata
    filtersMetadataDev,  \* build's local array filtersMetadataDev
    hostlistCompiled,    \* outcome of the last hostlistCompiler call of the run
    buildError,          \* the error build was rejected with, or Null
    exitCode,            \* process.exit code, or Null
    now,                 \* new Date().getTime()
    \* ---- what the run did (history of the current run)
    written,             \* files passed to writeFile / fs.writeFile in this run
    compilerCalls,       \* list indexes hostlistCompiler was invoked for in this run
    servicesStep,        \* steps of buildServices completed in this run
    \* ---- calls of the pure functions
    compiledA, compiledB,    \* two arrays of compiled rules
    hashedA, hashedB,        \* the strings calculateRevisionHash hashed for them
    revisionA, revisionB,    \* the hashes it returned for them
    expiresArg,              \* the argument of replaceExpires
    expiresResult,           \* what it returned
    localeResult,            \* result of loadLocales
    localesDone,             \* the locale directories the loop is through with
    currentLocale,           \* locale of the directory the loop is in
    currentItem,             \* index in items of the next file, 0 between directories
    messagesJson,            \* the file read last
    translationFiles,        \* services.json of every locale directory, or NoFile
    groupedTranslations      \* what getGroupedTranslations resolved with, or Null

buildVars == <<metadata, configuration, revisionFile, filterFile, assetsFilterFile,
               servicesFile, filtersMetadataFile, filtersMetadataDevFile,
               filtersI18nFile, sourceFragments, pc, i, filtersMetadata,
               filtersMetadataDev, hostlistCompiled, buildError, exitCode, now,
               written, compilerCalls, servicesStep>>
hashVars == <<compiledA, compiledB, hashedA, hashedB, revisionA, revisionB>>
expiresVars == <<expiresArg, expiresResult>>
localeVars == <<localeResult, localesDone, messagesJson, currentLocale, currentItem>>
groupVars == <<translationFiles, groupedTranslations>>
vars == <<buildVars, hashVars, expiresVars, localeVars, groupVars>>

\* ------------------------------------------------------------------ bounds
NumLists == 2
MaxTime == 2
MaxSources == 2

Lists == 1..NumLists

\* ------------------------------------------------------- JavaScript values
Null == [null |-> TRUE]
Undefined == [undefined |-> TRUE]
NaN == [nan |-> TRUE]
Num(n) == [num |-> n]
Str(s) == [str |-> s]
NoFile == [nofile |-> TRUE]
File(data) == [data |-> data]

\* readFile: null when the file does not exist
readFile(f) == IF f = NoFile THEN Null ELSE f.data

\* JSON.parse(readFile(path)): JSON.parse(null) is null
readJson(f) == readFile(f)

\* ------------------------------------------------------- JavaScript strings
\* (sequences of one-character strings; indexes below are 0-based as in JS)
Min(a, b) == IF a < b THEN a ELSE b
Max(a, b) == IF a > b THEN a ELSE b

\* String.prototype.startsWith
startsWith(s, p) == Len(s) >= Len(p) /\ SubSeq(s, 1, Len(p)) = p

\* String.prototype.indexOf(p, from): first 0-based index >= from, or -1
indexOfFrom(s, p, from) ==
    LET hits == {k \in Max(from, 0)..(Len(s) - Len(p)) : SubSeq(s, k + 1, k + Len(p)) = p}
    IN IF hits = {} THEN -1 ELSE CHOOSE k \in hits : \A m \in hits : k <= m

indexOf(s, p) == indexOfFrom(s, p, 0)

\* String.prototype.lastIndexOf(p)
lastIndexOf(s, p) ==
    LET hits == {k \in 0..(Len(s) - Len(p)) : SubSeq(s, k + 1, k + Len(p)) = p}
    IN IF hits = {} THEN -1 ELSE CHOOSE k \in hits : \A m \in hits : k >= m

\* String.prototype.substring(a, b): arguments clamped to 0..length, swapped if a > b
substring(s, a, b) ==
    LET ca == Min(Max(a, 0), Len(s))
        cb == Min(Max(b, 0), Len(s))
    IN SubSeq(s, Min(ca, cb) + 1, Max(ca, cb))

\* String.prototype.substring(a): to the end of the string
substringFrom(s, a) == substring(s, a, Len(s))

\* Array.prototype.join(sep) of an array of strings
RECURSIVE join(_, _)
join(lines, sep) ==
    IF Len(lines) = 0 THEN <<>>
    ELSE IF Len(lines) = 1 THEN lines[1]
    ELSE lines[1] \o sep \o join(Tail(lines), sep)

Digits == {"0", "1", "2", "3", "4", "5", "6", "7", "8", "9"}
DigitVal(c) ==
    CASE c = "0" -> 0 [] c = "1" -> 1 [] c = "2" -> 2 [] c = "3" -> 3 [] c = "4" -> 4
      [] c = "5" -> 5 [] c = "6" -> 6 [] c = "7" -> 7 [] c = "8" -> 8 [] c = "9" -> 9

\* value of the longest prefix of digits of s, having read the value acc
RECURSIVE ParseDigits(_, _)
ParseDigits(s, acc) ==
    IF Len(s) = 0 \/ s[1] \notin Digits THEN acc
    ELSE ParseDigits(Tail(s), 10 * acc + DigitVal(s[1]))

RECURSIVE TrimStart(_)
TrimStart(s) == IF Len(s) > 0 /\ s[1] = " " THEN TrimStart(Tail(s)) ELSE s

\* parseInt(s, 10): leading white space and an optional sign are skipped, the
\* digits that follow are read, NaN when there is none
parseInt(s) ==
    LET t == TrimStart(s)
        neg == Len(t) > 0 /\ t[1] = "-"
        u == IF Len(t) > 0 /\ t[1] \in {"-", "+"} THEN Tail(t) ELSE t
    IN IF Len(u) = 0 \/ u[1] \notin Digits THEN NaN
       ELSE Num(IF neg THEN 0 - ParseDigits(u, 0) ELSE ParseDigits(u, 0))

\* x * k for a number or NaN x
Times(x, k) == IF x = NaN THEN NaN ELSE Num(x.num * k)

\* ToBoolean of the values that occur
Truthy(v) == ~(v = Undefined \/ v = Null \/ v = NaN \/ v = Num(0) \/ v = Str(<<>>))

\* ------------------------------------------------------------ makeRevision
\* the revision object of a hash at time t (t is new Date().getTime())
makeRevision(currentRevision, hash, t) ==
    LET result == [timeUpdated |-> t, hash |-> hash]
    IN IF Truthy(currentRevision) /\ currentRevision.hash = result.hash
       THEN [result EXCEPT !.timeUpdated = currentRevision.timeUpdated]
       ELSE result

\* --------------------------------------------------- calculateRevisionHash
LastModifiedPrefix ==
    <<"!", " ", "L", "a", "s", "t", " ", "m", "o", "d", "i", "f", "i", "e", "d", ":">>
NewLine == <<"\n">>

\* md5 and the base64 encoding of its digest, taken to be free of collisions
md5(data) == [md5 |-> data]
toBase64(digest) == [base64 |-> digest]

\* the string that is hashed: the lines that are no "! Last modified:" line
HashData_NoFilter(compiled) == join(compiled, NewLine)

HashData(compiled) ==
    join(SelectSeq(compiled, LAMBDA s : ~startsWith(s, LastModifiedPrefix)), NewLine)

calculateRevisionHash(compiled) == toBase64(md5(HashData(compiled)))

\* ---------------------------------------------------------- replaceExpires
DayWord == <<"d", "a", "y">>
HourWord == <<"h", "o", "u", "r">>

replaceExpires(expires) ==
    LET converted ==
            IF indexOf(expires.str, DayWord) > 0
            THEN Times(parseInt(expires.str), 24 * 60 * 60)
            ELSE IF indexOf(expires.str, HourWord) > 0
            THEN Times(parseInt(expires.str), 60 * 60)
            ELSE expires
        \* Number.isNaN is true of the number NaN only, never of a string
        defaulted == IF converted = NaN THEN Num(86400) ELSE converted
        result == IF Truthy(expires) THEN defaulted ELSE expires
    IN IF Truthy(result) THEN result ELSE Num(86400)

\* ------------------------------------------------------ parseInfo, loadLocales
\* JavaScript objects are functions from their property names
EmptyObject == [k \in {} |-> Null]
GetOrEmpty(obj, k) == IF k \in DOMAIN obj THEN obj[k] ELSE EmptyObject
Put(obj, k, v) == [x \in (DOMAIN obj) \cup {k} |-> IF x = k THEN v ELSE obj[x]]

Dot == <<".">>
HostlistTagPrefix == <<"h", "o", "s", "t", "l", "i", "s", "t", "t", "a", "g", ".">>
HostlistPrefix == <<"h", "o", "s", "t", "l", "i", "s", "t", ".">>

parseInfo(string, mask) ==
    LET searchIndex == indexOf(string, mask) + Len(mask)
    IN [id |-> substring(string, searchIndex, indexOfFrom(string, Dot, searchIndex)),
        message |-> substringFrom(string, lastIndexOf(string, Dot) + 1)]

\* the two files of a locale directory
Items ==
    <<[file |-> "tags.json", prefix |-> HostlistTagPrefix, propName |-> "tags"],
      [file |-> "filters.json", prefix |-> HostlistPrefix, propName |-> "filters"]>>

\* the body of the loop over the properties of a message: one property
\* (a property is <<name, value>>; mapping is result[propName])
AddProperty_LastLocaleWins(mapping, locale, prefix, property) ==
    LET info == parseInfo(property[1], prefix)
    IN IF info.id = <<>> THEN mapping
       ELSE Put(mapping, info.id,
                Put(EmptyObject, locale, Put(EmptyObject, info.message, property[2])))

AddProperty(mapping, locale, prefix, property) ==
    LET info == parseInfo(property[1], prefix)
        byId == GetOrEmpty(mapping, info.id)
        byLocale == GetOrEmpty(byId, locale)
    IN IF info.id = <<>> THEN mapping
       ELSE Put(mapping, info.id,
                Put(byId, locale, Put(byLocale, info.message, property[2])))

\* for (const property of Object.keys(message)): a message is the sequence
\* of its properties, in the order of Object.keys
RECURSIVE AddMessage(_, _, _, _)
AddMessage(mapping, locale, prefix, message) ==
    IF Len(message) = 0 THEN mapping
    ELSE AddMessage(AddProperty(mapping, locale, prefix, message[1]),
                    locale, prefix, Tail(message))

\* for (const message of messagesJson)
RECURSIVE AddMessages(_, _, _, _)
AddMessages(mapping, locale, prefix, messages) ==
    IF Len(messages) = 0 THEN mapping
    ELSE AddMessages(AddMessage(mapping, locale, prefix, messages[1]),
                     locale, prefix, Tail(messages))

\* the mapping an item's messages are folded into
ItemPropName(item) == item.propName

\* the body of the loop over items: one file of one locale directory
LoadItem(result, locale, item, file) ==
    IF file = NoFile THEN result
    ELSE [result EXCEPT ![ItemPropName(item)] =
              AddMessages(result[ItemPropName(item)], locale, item.prefix, file.data)]

\* the body of the loop over localeDirs: one locale directory
LoadLocaleDir(result, localeDir) ==
    LoadItem(LoadItem(result, localeDir.locale, Items[1], localeDir.files[Items[1].file]),
             localeDir.locale, Items[2], localeDir.files[Items[2].file])

RECURSIVE LoadLocaleDirs(_, _)
LoadLocaleDirs(result, localeDirs) ==
    IF Len(localeDirs) = 0 THEN result
    ELSE LoadLocaleDirs(LoadLocaleDir(result, localeDirs[1]), Tail(localeDirs))

loadLocales(localeDirs) ==
    LoadLocaleDirs([tags |-> EmptyObject, filters |-> EmptyObject], localeDirs)

\* ------------------------------------------------------------------- build
HOSTLISTS_URL == "https://adguardteam.github.io/HostlistsRegistry/assets"

\* names of the files the process writes (list is 0 for the files of assetsDir)
RevisionFileOf(j) == [file |-> "revision.json", list |-> j]
FilterFileOf(j) == [file |-> "filter.txt", list |-> j]
AssetsFilterFileOf(j) == [file |-> "filter_<id>.txt", list |-> j]
ServicesFileName == [file |-> "services.json", list |-> 0]
FiltersMetadataFileName == [file |-> "filters.json", list |-> 0]
FiltersMetadataDevFileName == [file |-> "filters-dev.json", list |-> 0]
FiltersI18nFileName == [file |-> "filters_i18n.json", list |-> 0]
SourceFragmentFileOf(id) == [file |-> id, list |-> 0]
CatalogFileNames ==
    {ServicesFileName, FiltersMetadataFileName, FiltersMetadataDevFileName,
     FiltersI18nFileName}

\* ---- the inputs of a run
HomepageOf(j) == [kind |-> "homepage", list |-> j, n |-> 0]
SourceOf(j, k) == [kind |-> "source", list |-> j, n |-> k]

\* configuration.json of list j with n sources
ConfigurationOf(j, n) == [sources |-> [k \in 1..n |-> [source |-> SourceOf(j, k)]]]

ExpiresFiveDays == <<"5", " ", "d", "a", "y", "s">>

\* metadata.json of list j
MetadataOf(j, disabled, environment) ==
    [filterId |-> j, id |-> j, name |-> "name", description |-> "description",
     tags |-> <<"purpose:general">>, homepage |-> HomepageOf(j),
     expires |-> IF j % 2 = 1 THEN Str(ExpiresFiveDays) ELSE Undefined,
     displayNumber |-> j, timeAdded |-> 0,
     disabled |-> disabled, environment |-> environment]

\* what hostlistCompiler can resolve to: the rules of the sources, headed by
\* the "! Last modified:" comment of the compilation
LastModified1 == LastModifiedPrefix \o <<" ", "1">>
LastModified2 == LastModifiedPrefix \o <<" ", "2">>
RuleA == <<"|", "|", "a", "^">>
RuleB == <<"|", "|", "b", "^">>
CompiledOutputs == {<<LastModified2, RuleA>>, <<LastModified2, RuleB>>}
Compiled(lines) == [lines |-> lines]
Throws(ex) == [throws |-> ex]
CompileFailures == {Throws("Error: fetch failed")}
CompileOutcomes == {Compiled(c) : c \in CompiledOutputs} \cup CompileFailures

\* what mastodonServerlistCompiler can resolve to
MastodonServerLists == {"servers"}

\* the locale tree build folds into filters_i18n.json
HostlistOneName == HostlistPrefix \o <<"1", ".", "n", "a", "m", "e">>
TagOneName == HostlistTagPrefix \o <<"1", ".", "n", "a", "m", "e">>
LocaleDirOf(locale) ==
    [locale |-> locale,
     files |-> [f \in {"tags.json", "filters.json"} |->
                   IF f = "tags.json" THEN File(<< <<(<<TagOneName, locale>>)>> >>)
                   ELSE File(<< <<(<<HostlistOneName, locale>>)>> >>)]]
LocalesDir == <<LocaleDirOf("en"), LocaleDirOf("fr")>>

TagsMetadata == <<[tagId |-> 1, keyword |-> "purpose:general"]>>

\* ---- the steps of one iteration of the loop over filterDirs
\* if (!metadata.disabled)
ShouldCompile_Always(meta) == TRUE

ShouldCompile(meta) == ~meta.disabled

\* if (currentRevision.hash !== hash)
RevisionChanged_Always(currentRevision, hash) == TRUE

RevisionChanged(currentRevision, hash) == currentRevision.hash # hash

\* JSON.parse(readFile(revisionFile)) || { timeUpdated: new Date().getTime() }
CurrentRevision(file, t) ==
    IF Truthy(readJson(file)) THEN readJson(file)
    ELSE [timeUpdated |-> t, hash |-> Undefined]

\* catch (ex) { throw new Error(`Failed to compile ${metadata.id}: ${ex}`) }:
\* build is rejected, the catch of index.js logs and calls process.exit(1)
CompileFailed_Skip(meta, ex) ==
    [pc |-> "lists", buildError |-> Null, exitCode |-> Null]

CompileFailed(meta, ex) ==
    [pc |-> "exited",
     buildError |-> [message |-> "Failed to compile ${metadata.id}: ${ex}",
                     id |-> meta.id, ex |-> ex],
     exitCode |-> Num(1)]

\* sourceUrl of a list
ResolveSourceUrl_First(hostlistConfiguration, meta) ==
    IF Len(hostlistConfiguration.sources) >= 1
    THEN hostlistConfiguration.sources[1].source
    ELSE meta.homepage

ResolveSourceUrl(hostlistConfiguration, meta) ==
    IF Len(hostlistConfiguration.sources) = 1
    THEN hostlistConfiguration.sources[1].source
    ELSE meta.homepage

FilterName(meta) == <<"filter_", meta.id, ".txt">>

\* the record of a list in the catalogs
FilterMetadata(meta, hostlistConfiguration, timeUpdated) ==
    [filterId |-> meta.filterId,
     id |-> meta.id,
     name |-> meta.name,
     description |-> meta.description,
     tags |-> meta.tags,
     homepage |-> meta.homepage,
     expires |-> replaceExpires(meta.expires),
     displayNumber |-> meta.displayNumber,
     downloadUrl |-> <<HOSTLISTS_URL, "/", FilterName(meta)>>,
     sourceUrl |-> ResolveSourceUrl(hostlistConfiguration, meta),
     timeAdded |-> meta.timeAdded,
     timeUpdated |-> timeUpdated]

\* if (metadata.environment === "prod")
IsProd_Any(meta) == TRUE

IsProd(meta) == meta.environment = "prod"

\* position of the process after iteration k of the loop
AfterList(k) == IF k + 1 \in Lists THEN "lists" ELSE "mastodon"

\* ---- services.json and the service sources
OtherService == [id |-> "other", rules |-> "static"]
MastodonService == [id |-> "mastodon", rules |-> "static"]
\* the source file of a service, edited since services.json was written
OtherServiceSource == [id |-> "other", rules |-> "edited"]

\* Array.prototype.findIndex((el) => el.id === id): 0-based, or -1
findIndex(services, id) ==
    LET hits == {k \in 1..Len(services) : services[k].id = id}
    IN IF hits = {} THEN -1 ELSE (CHOOSE k \in hits : \A m \in hits : k <= m) - 1

\* getDifferences: the services of the distribution that have no source file
getDifferences(distFileContent, sourceFilesContent) ==
    {distFileContent[k] : k \in {n \in 1..Len(distFileContent) :
        \A src \in sourceFilesContent : src.id # distFileContent[n].id}}

\* mergeServicesData: the source version of a service wins over the distribution's
mergeServicesData(distFileContent, sourceFilesContent) ==
    [k \in 1..Len(distFileContent) |->
        IF \E src \in sourceFilesContent : src.id = distFileContent[k].id
        THEN CHOOSE src \in sourceFilesContent : src.id = distFileContent[k].id
        ELSE distFileContent[k]]

\* ------------------------------ add-localizations.js: service translations
\* String.prototype.split(sep) for a separator of one character
RECURSIVE split(_, _)
split(s, sep) ==
    IF indexOf(s, sep) = -1 THEN <<s>>
    ELSE <<SubSeq(s, 1, indexOf(s, sep))>> \o split(SubSeq(s, indexOf(s, sep) + 2, Len(s)), sep)

\* the name of the property that an element of an array is used as: the
\* element, "undefined" when the array is shorter
UndefinedName == <<"u", "n", "d", "e", "f", "i", "n", "e", "d">>
ElementName(parts, k) == IF k + 1 <= Len(parts) THEN parts[k + 1] ELSE UndefinedName

\* Object.assign(target, source), and { ...target, ...source }
ObjectAssign(target, source) ==
    [k \in (DOMAIN target) \cup (DOMAIN source) |->
        IF k \in DOMAIN source THEN source[k] ELSE target[k]]

\* translate when the loop over the entries of a fileObject is through:
\* translate[sign] = value for every entry, in the order of Object.entries
RECURSIVE TranslateOf(_, _)
TranslateOf(translate, entries) ==
    IF Len(entries) = 0 THEN translate
    ELSE TranslateOf(Put(translate, ElementName(split(entries[1][1], Dot), 2), entries[1][2]),
                     Tail(entries))

\* componentLocalesTranslate when the loop over the entries of a fileObject is
\* through: every id of the fileObject holds the one object localesTranslate,
\* whose only property holds the one object translate
ComponentLocalesTranslate(fileObject, locale) ==
    [id \in {ElementName(split(fileObject[k][1], Dot), 1) : k \in 1..Len(fileObject)} |->
        Put(EmptyObject, locale, TranslateOf(EmptyObject, fileObject))]

\* fileObjects.forEach: Object.assign(groupedFileObjects, componentLocalesTranslate)
RECURSIVE GroupFileObjects(_, _, _)
GroupFileObjects(groupedFileObjects, fileObjects, locale) ==
    IF Len(fileObjects) = 0 THEN groupedFileObjects
    ELSE GroupFileObjects(
             ObjectAssign(groupedFileObjects,
                          ComponentLocalesTranslate(fileObjects[1], locale)),
             Tail(fileObjects), locale)

groupFileContentByTranslations(fileObjects, locale) ==
    GroupFileObjects(EmptyObject, fileObjects, locale)

\* the callback of reduce: acc[key] = { ...acc[key], ...value } for every
\* entry of obj
MergeTranslation(acc, obj) ==
    [key \in (DOMAIN acc) \cup (DOMAIN obj) |->
        IF key \in DOMAIN obj THEN ObjectAssign(GetOrEmpty(acc, key), obj[key])
        ELSE acc[key]]

RECURSIVE ReduceTranslations(_, _)
ReduceTranslations(acc, translations) ==
    IF Len(translations) = 0 THEN acc
    ELSE ReduceTranslations(MergeTranslation(acc, translations[1]), Tail(translations))

\* directories.map(...): the grouped content of the directories that have a
\* services.json, in the order of directories
RECURSIVE ExistingTranslations(_, _)
ExistingTranslations(files, directories) ==
    IF Len(directories) = 0 THEN <<>>
    ELSE (IF files[directories[1]] = NoFile THEN <<>>
          ELSE <<groupFileContentByTranslations(files[directories[1]].data,
                                                directories[1])>>)
         \o ExistingTranslations(files, Tail(directories))

getGroupedTranslations(files, directories) ==
    ReduceTranslations(EmptyObject, ExistingTranslations(files, directories))

\* the value a promise resolved with
Resolved(value) == [resolved |-> value]

\* -------------------------------------------------------------------- Init
\* no call of calculateRevisionHash, replaceExpires, loadLocales,
\* getGroupedTranslations under way
InitHashIdle ==
    /\ compiledA = <<>> /\ compiledB = <<>>
    /\ hashedA = Null /\ hashedB = Null
    /\ revisionA = Null /\ revisionB = Null

InitExpiresIdle == expiresArg = Undefined /\ expiresResult = Null

InitLocalesIdle ==
    /\ localeResult = [tags |-> EmptyObject, filters |-> EmptyObject]
    /\ localesDone = {}
    /\ currentLocale = ""
    /\ currentItem = 0
    /\ messagesJson = Undefined

InitGroupIdle ==
    /\ translationFiles = EmptyObject
    /\ groupedTranslations = Null

InitFunctions ==
    /\ InitHashIdle
    /\ InitExpiresIdle
    /\ InitLocalesIdle
    /\ InitGroupIdle

\* no process
InitNoProcess ==
    /\ metadata = <<>> /\ configuration = <<>>
    /\ revisionFile = <<>> /\ filterFile = <<>> /\ assetsFilterFile = <<>>
    /\ servicesFile = NoFile
    /\ filtersMetadataFile = NoFile
    /\ filtersMetadataDevFile = NoFile
    /\ filtersI18nFile = NoFile
    /\ sourceFragments = {}
    /\ pc = "none" /\ i = 1
    /\ filtersMetadata = <<>> /\ filtersMetadataDev = <<>>
    /\ hostlistCompiled = Null /\ buildError = Null /\ exitCode = Null
    /\ now = 1
    /\ written = {} /\ compilerCalls = {} /\ servicesStep = 0

InitProcess ==
    /\ pc = "idle" /\ i = 1
    /\ filtersMetadata = <<>> /\ filtersMetadataDev = <<>>
    /\ hostlistCompiled = Null /\ buildError = Null /\ exitCode = Null
    /\ now = 1
    /\ written = {} /\ compilerCalls = {} /\ servicesStep = 0

\* the environment of list j where it is not chosen
EnvironmentOf(j) == IF j % 2 = 1 THEN "prod" ELSE "staging"

\* a fresh checkout: no list is built yet, assets holds services.json
InitUnbuiltFiles ==
    /\ revisionFile = [j \in Lists |-> NoFile]
    /\ filterFile = [j \in Lists |-> NoFile]
    /\ assetsFilterFile = [j \in Lists |-> NoFile]
    /\ servicesFile = File([blocked_services |-> <<OtherService, MastodonService>>])
    /\ sourceFragments = {OtherServiceSource}
    /\ filtersMetadataFile = NoFile
    /\ filtersMetadataDevFile = NoFile
    /\ filtersI18nFile = NoFile

\* a checkout of the repository: every list has its metadata and configuration,
\* a list that was compiled before has its revision and its filter, and assets
\* holds services.json
InitFiles ==
    /\ \E disabled \in [Lists -> BOOLEAN] :
           metadata = [j \in Lists |-> MetadataOf(j, disabled[j], EnvironmentOf(j))]
    /\ configuration = [j \in Lists |-> ConfigurationOf(j, j % (MaxSources + 1))]
    /\ \E built \in [Lists -> BOOLEAN] :
        /\ revisionFile = [j \in Lists |->
               IF built[j]
               THEN File([timeUpdated |-> 0,
                          hash |-> calculateRevisionHash(<<LastModified1, RuleA>>)])
               ELSE NoFile]
        /\ filterFile = [j \in Lists |->
               IF built[j] THEN File(join(<<LastModified1, RuleA>>, NewLine)) ELSE NoFile]
        /\ assetsFilterFile = filterFile
    /\ \E services \in {<<OtherService, MastodonService>>, <<OtherService>>} :
           servicesFile = File([blocked_services |-> services])
    /\ sourceFragments = {OtherServiceSource}
    /\ filtersMetadataFile = NoFile
    /\ filtersMetadataDevFile = NoFile
    /\ filtersI18nFile = NoFile

Init == InitFiles /\ InitProcess /\ InitFunctions

\* a fresh checkout whose first list is enabled and whose other lists are disabled
InitSourcesFiles ==
    /\ metadata = [j \in Lists |-> MetadataOf(j, j # 1, EnvironmentOf(j))]
    /\ configuration = [j \in Lists |-> ConfigurationOf(j, 1)]
    /\ InitUnbuiltFiles

InitSources == InitSourcesFiles /\ InitProcess /\ InitFunctions

\* a fresh checkout with lists of every environment, enabled or not
InitCatalogFiles ==
    /\ \E disabled \in [Lists -> BOOLEAN], environment \in [Lists -> {"prod", "staging"}] :
           metadata = [j \in Lists |-> MetadataOf(j, disabled[j], environment[j])]
    /\ configuration = [j \in Lists |-> ConfigurationOf(j, j % (MaxSources + 1))]
    /\ InitUnbuiltFiles

InitCatalog == InitCatalogFiles /\ InitProcess /\ InitFunctions

\* ----------------------------------------------------------------- actions
Idle == pc = "idle"

\* node index.js: the process starts and calls builder.build
Start ==
    /\ Idle
    /\ pc' = IF 1 \in Lists THEN "lists" ELSE "mastodon"
    /\ i' = 1
    /\ filtersMetadata' = <<>>
    /\ filtersMetadataDev' = <<>>
    /\ hostlistCompiled' = Null
    /\ buildError' = Null
    /\ exitCode' = Null
    /\ written' = {}
    /\ compilerCalls' = {}
    /\ servicesStep' = 0
    /\ UNCHANGED <<metadata, configuration, revisionFile, filterFile, assetsFilterFile,
                   servicesFile, filtersMetadataFile, filtersMetadataDevFile,
                   filtersI18nFile, sourceFragments, now>>
    /\ UNCHANGED <<hashVars, expiresVars, localeVars, groupVars>>

\* the record of list i is pushed and the loop goes on
PushFilterMetadata(meta, hostlistConfiguration, timeUpdated) ==
    /\ filtersMetadata' =
           IF IsProd(meta)
           THEN Append(filtersMetadata, FilterMetadata(meta, hostlistConfiguration, timeUpdated))
           ELSE filtersMetadata
    /\ filtersMetadataDev' =
           Append(filtersMetadataDev, FilterMetadata(meta, hostlistConfiguration, timeUpdated))
    /\ pc' = AfterList(i)
    /\ i' = i + 1
    /\ UNCHANGED <<buildError, exitCode>>

\* one iteration of the loop of build over filterDirs
BuildList ==
    /\ pc = "lists"
    /\ i \in Lists
    /\ LET meta == metadata[i]
           currentRevision == CurrentRevision(revisionFile[i], now)
           hostlistConfiguration == configuration[i]
       IN IF ~ShouldCompile(meta)
          THEN /\ PushFilterMetadata(meta, hostlistConfiguration, currentRevision.timeUpdated)
               /\ UNCHANGED <<revisionFile, filterFile, assetsFilterFile, written,
                              hostlistCompiled, compilerCalls>>
          ELSE \E outcome \in CompileOutcomes :
               /\ hostlistCompiled' = outcome
               /\ compilerCalls' = compilerCalls \cup {i}
               /\ IF outcome \in CompileFailures
                  THEN LET failed == CompileFailed(meta, outcome.throws)
                       IN /\ pc' = IF failed.pc = "lists" THEN AfterList(i) ELSE failed.pc
                          /\ i' = IF failed.pc = "lists" THEN i + 1 ELSE i
                          /\ buildError' = failed.buildError
                          /\ exitCode' = failed.exitCode
                          /\ UNCHANGED <<revisionFile, filterFile, assetsFilterFile, written,
                                         filtersMetadata, filtersMetadataDev>>
                  ELSE LET hash == calculateRevisionHash(outcome.lines)
                           newRevision == makeRevision(currentRevision, hash, now)
                           content == join(outcome.lines, NewLine)
                       IN IF RevisionChanged(currentRevision, hash)
                          THEN /\ revisionFile' = [revisionFile EXCEPT ![i] = File(newRevision)]
                               /\ assetsFilterFile' = [assetsFilterFile EXCEPT ![i] = File(content)]
                               /\ filterFile' = [filterFile EXCEPT ![i] = File(content)]
                               /\ written' = written \cup
                                      {RevisionFileOf(i), AssetsFilterFileOf(i), FilterFileOf(i)}
                               /\ PushFilterMetadata(meta, hostlistConfiguration,
                                                     newRevision.timeUpdated)
                          ELSE /\ UNCHANGED <<revisionFile, filterFile, assetsFilterFile, written>>
                               /\ PushFilterMetadata(meta, hostlistConfiguration,
                                                     currentRevision.timeUpdated)
    /\ UNCHANGED <<metadata, configuration, servicesFile, filtersMetadataFile,
                   filtersMetadataDevFile, filtersI18nFile, sourceFragments, now,
                   servicesStep>>
    /\ UNCHANGED <<hashVars, expiresVars, localeVars, groupVars>>

\* the rest of build, after the loop: the Mastodon server list is set in
\* services.json and the three catalogs are written
BuildCatalogs ==
    /\ pc = "mastodon"
    /\ \E mastodonServers \in MastodonServerLists :
       LET services == readJson(servicesFile)
           mastodonIndex == findIndex(services.blocked_services, "mastodon")
           localizations == loadLocales(LocalesDir)
       IN IF mastodonIndex = -1
          THEN /\ buildError' = [message |-> "Mastodon service not found"]
               /\ pc' = "exited"
               /\ exitCode' = Num(1)
               /\ UNCHANGED <<servicesFile, filtersMetadataFile, filtersMetadataDevFile,
                              filtersI18nFile, written>>
          ELSE /\ servicesFile' = File([services EXCEPT
                      !.blocked_services[mastodonIndex + 1].rules = mastodonServers])
               /\ filtersMetadataFile' =
                      File([filters |-> filtersMetadata, tags |-> TagsMetadata])
               /\ filtersMetadataDevFile' =
                      File([filters |-> filtersMetadataDev, tags |-> TagsMetadata])
               /\ filtersI18nFile' =
                      File([tags |-> localizations.tags, filters |-> localizations.filters])
               /\ written' = written \cup CatalogFileNames
               /\ pc' = "services"
               /\ UNCHANGED <<buildError, exitCode>>
    /\ UNCHANGED <<metadata, configuration, revisionFile, filterFile, assetsFilterFile,
                   sourceFragments, i, filtersMetadata, filtersMetadataDev,
                   hostlistCompiled, now, compilerCalls, servicesStep>>
    /\ UNCHANGED <<hashVars, expiresVars, localeVars, groupVars>>

\* the steps of buildServices, in the order of the code: readDistFileContent,
\* readSourceFilesContent, getDifferences, restoreRemovedSourceFiles,
\* mergeServicesData, validateSvgIcons, groupServicesData, fs.writeFile
ReadDistStep == 1
RestoreStep == 4
MergeStep == 5
ValidateStep == 6
WriteStep == 8

\* process.exit(0) at the end of the try block, process.exit(1) in catch;
\* failedAt is the step that threw, 0 when none did
ServicesExitCode_Zero(failedAt) == Num(0)

ServicesExitCode(failedAt) == IF failedAt = 0 THEN Num(0) ELSE Num(1)

\* buildServices up to the restoration of the removed source files
ServicesRestore ==
    /\ pc = "services"
    /\ \E failedAt \in {0} \cup (ReadDistStep..RestoreStep) :
       LET distFileContent == readJson(servicesFile).blocked_services
           differences == getDifferences(distFileContent, sourceFragments)
       IN IF failedAt # 0
          THEN /\ pc' = "exited"
               /\ exitCode' = ServicesExitCode(failedAt)
               /\ servicesStep' = failedAt - 1
               \* a restoration that fails has restored some of the files
               /\ \E restored \in SUBSET differences :
                    /\ failedAt # RestoreStep => restored = {}
                    /\ sourceFragments' = sourceFragments \cup restored
                    /\ written' = written \cup {SourceFragmentFileOf(d.id) : d \in restored}
          ELSE /\ sourceFragments' = sourceFragments \cup differences
               /\ written' = written \cup {SourceFragmentFileOf(d.id) : d \in differences}
               /\ pc' = "services_merge"
               /\ servicesStep' = RestoreStep
               /\ UNCHANGED exitCode
    /\ UNCHANGED <<metadata, configuration, revisionFile, filterFile, assetsFilterFile,
                   servicesFile, filtersMetadataFile, filtersMetadataDevFile,
                   filtersI18nFile, i, filtersMetadata, filtersMetadataDev,
                   hostlistCompiled, buildError, now, compilerCalls>>
    /\ UNCHANGED <<hashVars, expiresVars, localeVars, groupVars>>

\* the rest of buildServices: merge, validate the icons, group, write, exit
ServicesWrite ==
    /\ pc = "services_merge"
    /\ \E failedAt \in {0} \cup (MergeStep..WriteStep) :
       LET distFileContent == readJson(servicesFile).blocked_services
           mergedServicesData == mergeServicesData(distFileContent, sourceFragments)
       IN /\ exitCode' = ServicesExitCode(failedAt)
          /\ IF failedAt # 0
             THEN /\ servicesStep' = failedAt - 1
                  /\ UNCHANGED <<servicesFile, written>>
             ELSE /\ servicesStep' = WriteStep
                  /\ servicesFile' = File([blocked_services |-> mergedServicesData])
                  /\ written' = written \cup {ServicesFileName}
    /\ pc' = "exited"
    /\ UNCHANGED <<metadata, configuration, revisionFile, filterFile, assetsFilterFile,
                   filtersMetadataFile, filtersMetadataDevFile, filtersI18nFile,
                   sourceFragments, i, filtersMetadata, filtersMetadataDev,
                   hostlistCompiled, buildError, now, compilerCalls>>
    /\ UNCHANGED <<hashVars, expiresVars, localeVars, groupVars>>

\* the process is gone, and its memory with it
Exited ==
    /\ pc = "exited"
    /\ pc' = "idle"
    /\ i' = 1
    /\ filtersMetadata' = <<>>
    /\ filtersMetadataDev' = <<>>
    /\ hostlistCompiled' = Null
    /\ buildError' = Null
    /\ exitCode' = Null
    /\ written' = {}
    /\ compilerCalls' = {}
    /\ servicesStep' = 0
    /\ UNCHANGED <<metadata, configuration, revisionFile, filterFile, assetsFilterFile,
                   servicesFile, filtersMetadataFile, filtersMetadataDevFile,
                   filtersI18nFile, sourceFragments, now>>
    /\ UNCHANGED <<hashVars, expiresVars, localeVars, groupVars>>

\* time passes between two runs
Tick ==
    /\ Idle
    /\ now < MaxTime
    /\ now' = now + 1
    /\ UNCHANGED <<metadata, configuration, revisionFile, filterFile, assetsFilterFile,
                   servicesFile, filtersMetadataFile, filtersMetadataDevFile,
                   filtersI18nFile, sourceFragments, pc, i, filtersMetadata,
                   filtersMetadataDev, hostlistCompiled, buildError, exitCode,
                   written, compilerCalls, servicesStep>>
    /\ UNCHANGED <<hashVars, expiresVars, localeVars, groupVars>>

\* between two runs a maintainer adds or removes sources of a list
EditConfiguration ==
    /\ Idle
    /\ \E j \in Lists, n \in 0..MaxSources :
           configuration' = [configuration EXCEPT ![j] = ConfigurationOf(j, n)]
    /\ UNCHANGED <<metadata, revisionFile, filterFile, assetsFilterFile,
                   servicesFile, filtersMetadataFile, filtersMetadataDevFile,
                   filtersI18nFile, sourceFragments, pc, i, filtersMetadata,
                   filtersMetadataDev, hostlistCompiled, buildError, exitCode, now,
                   written, compilerCalls, servicesStep>>
    /\ UNCHANGED <<hashVars, expiresVars, localeVars, groupVars>>

Next ==
    \/ Start
    \/ BuildList
    \/ BuildCatalogs
    \/ ServicesRestore
    \/ ServicesWrite
    \/ Exited
    \/ Tick

Spec == Init /\ [][Next]_vars

\* the runs of the process over lists of every environment
SpecCatalog == InitCatalog /\ [][Next]_vars

\* the runs of the process with the sources of the lists edited in between
NextSources ==
    \/ Start
    \/ BuildList
    \/ BuildCatalogs
    \/ ServicesRestore
    \/ ServicesWrite
    \/ Exited
    \/ Tick
    \/ EditConfiguration

SpecSources == InitSources /\ [][NextSources]_vars

\* ------------------------------------------- calls of calculateRevisionHash
MaxLines == 2

\* the lines of the compiled arrays: "! Last modified:" comments, and rules
\* and comments that are none, the empty line among them
NotQuiteLastModified == SubSeq(LastModifiedPrefix, 1, Len(LastModifiedPrefix) - 1)
QuotedLastModified == <<"#">> \o LastModifiedPrefix
LastModifiedLines == {LastModified1, LastModified2}
OtherLines == {<<>>, RuleA, NotQuiteLastModified, QuotedLastModified}

\* the sequences over S of length n or less
SeqsUpTo(S, n) == UNION {[1..m -> S] : m \in 0..n}

CompiledArrays == SeqsUpTo(LastModifiedLines \cup OtherLines, MaxLines)

InitHash ==
    /\ InitNoProcess /\ InitExpiresIdle /\ InitLocalesIdle /\ InitGroupIdle
    /\ compiledA \in CompiledArrays
    /\ compiledB \in CompiledArrays
    /\ hashedA = Null /\ hashedB = Null
    /\ revisionA = Null /\ revisionB = Null

\* calculateRevisionHash(compiledA) and calculateRevisionHash(compiledB)
CallCalculateRevisionHash ==
    /\ revisionA = Null
    /\ hashedA' = Str(HashData(compiledA))
    /\ hashedB' = Str(HashData(compiledB))
    /\ revisionA' = calculateRevisionHash(compiledA)
    /\ revisionB' = calculateRevisionHash(compiledB)
    /\ UNCHANGED <<compiledA, compiledB>>
    /\ UNCHANGED <<buildVars, expiresVars, localeVars, groupVars>>

NextHash == CallCalculateRevisionHash

SpecHash == InitHash /\ [][NextHash]_vars

\* -------------------------------------------------- calls of replaceExpires
MaxPieces == 3

Banana == <<"b", "a", "n", "a", "n", "a">>
Minutes == <<"m", "i", "n", "u", "t", "e", "s">>
ExpiresPieces ==
    {<<"5">>, <<"4">>, <<"1", "0">>, <<"0">>, <<" ">>, DayWord, HourWord, <<"s">>,
     Banana, Minutes}

\* the concatenations of n pieces or less
RECURSIVE Concatenations(_)
Concatenations(n) ==
    IF n = 0 THEN {<<>>}
    ELSE Concatenations(n - 1)
             \cup {s \o piece : s \in Concatenations(n - 1), piece \in ExpiresPieces}

\* metadata.expires: missing, or a string
ExpiresValues == {Undefined} \cup {Str(s) : s \in Concatenations(MaxPieces)}

InitExpires ==
    /\ InitNoProcess /\ InitHashIdle /\ InitLocalesIdle /\ InitGroupIdle
    /\ expiresArg \in ExpiresValues
    /\ expiresResult = Null

CallReplaceExpires ==
    /\ expiresResult = Null
    /\ expiresResult' = replaceExpires(expiresArg)
    /\ UNCHANGED expiresArg
    /\ UNCHANGED <<buildVars, hashVars, localeVars, groupVars>>

NextExpires == CallReplaceExpires

SpecExpires == InitExpires /\ [][NextExpires]_vars

\* ----------------------------------------------------- calls of loadLocales
MaxLocales == 2
MaxMessages == 2

LocaleNames == <<"de", "en", "fr", "ja">>
Locales == {LocaleNames[k] : k \in 1..MaxLocales}

HostlistOneXName == HostlistPrefix \o <<"1", ".", "x", ".", "n", "a", "m", "e">>

TagTwoDescription ==
    HostlistTagPrefix \o <<"2", ".", "d", "e", "s", "c", "r", "i", "p", "t", "i", "o", "n">>

\* the keys of the messages of a file
KeysOf(item) ==
    IF item.propName = "tags" THEN {TagTwoDescription}
    ELSE {HostlistOneName, HostlistOneXName}

\* the translations in the files of an item
TranslationsOf(item) == IF item.propName = "tags" THEN {"A"} ELSE {"A", "B"}

\* the messages of a file: objects of one property, and of two (an object's
\* keys are distinct)
MessagesOf(item) ==
    {<< <<k, v>> >> : k \in KeysOf(item), v \in TranslationsOf(item)}
        \cup UNION {{<< <<k1, "A">>, <<k2, "B">> >> : k2 \in KeysOf(item) \ {k1}} :
                        k1 \in KeysOf(item)}

\* tags.json or filters.json of a locale directory: missing, or an array of messages
FilesOf(item) == {NoFile} \cup {File(m) : m \in SeqsUpTo(MessagesOf(item), MaxMessages)}

InitLocales ==
    /\ InitNoProcess /\ InitHashIdle /\ InitExpiresIdle /\ InitGroupIdle
    /\ InitLocalesIdle

\* for (const localeDir of localeDirs): the loop enters the next directory
NextLocaleDir ==
    /\ currentItem = 0
    /\ \E locale \in Locales \ localesDone :
        /\ currentLocale' = locale
        /\ currentItem' = 1
    /\ UNCHANGED <<localeResult, localesDone, messagesJson>>
    /\ UNCHANGED <<buildVars, hashVars, expiresVars, groupVars>>

\* const messagesJson = JSON.parse(readFile(item.file))
ReadMessagesJson ==
    /\ currentItem \in 1..Len(Items)
    /\ messagesJson = Undefined
    /\ \E file \in FilesOf(Items[currentItem]) : messagesJson' = file
    /\ UNCHANGED <<localeResult, localesDone, currentLocale, currentItem>>
    /\ UNCHANGED <<buildVars, hashVars, expiresVars, groupVars>>

\* if (messagesJson) { ... }: the messages are folded into result, and the loop
\* goes to the next item, or leaves the directory after the last
AddMessagesJson ==
    /\ currentItem \in 1..Len(Items)
    /\ messagesJson # Undefined
    /\ localeResult' = LoadItem(localeResult, currentLocale, Items[currentItem], messagesJson)
    /\ messagesJson' = Undefined
    /\ currentItem' = IF currentItem = Len(Items) THEN 0 ELSE currentItem + 1
    /\ localesDone' =
           IF currentItem = Len(Items) THEN localesDone \cup {currentLocale} ELSE localesDone
    /\ UNCHANGED currentLocale
    /\ UNCHANGED <<buildVars, hashVars, expiresVars, groupVars>>

NextLocales ==
    \/ NextLocaleDir
    \/ ReadMessagesJson
    \/ AddMessagesJson

SpecLocales == InitLocales /\ [][NextLocales]_vars

\* ------------------------------------------- loadLocales on keys of any shape
FilterWord == <<"f", "i", "l", "t", "e", "r", ".">>

\* the pieces the keys of a locale file are made of: what stands before the
\* id, the id, and what follows it
KeyHeads == {<<>>, HostlistPrefix, HostlistTagPrefix, FilterWord}
KeyIds == {<<>>, <<"1">>, <<"1", "0">>}
KeyTails == {<<>>, Dot, <<".", "n", "a", "m", "e">>, <<".", "x", ".", "n", "a", "m", "e">>}
KeyCandidates == {h \o d \o t : h \in KeyHeads, d \in KeyIds, t \in KeyTails}

\* a locale file of one message of one property
KeyFiles == {File(<< << <<k, v>> >> >>) : k \in KeyCandidates, v \in {"A"}}

\* a locale file has been read, of any locale directory and of either item
InitKeys ==
    /\ InitNoProcess /\ InitHashIdle /\ InitExpiresIdle /\ InitGroupIdle
    /\ localeResult = [tags |-> EmptyObject, filters |-> EmptyObject]
    /\ localesDone = {}
    /\ currentLocale \in Locales
    /\ currentItem \in 1..Len(Items)
    /\ messagesJson \in KeyFiles

NextKeys == AddMessagesJson

SpecKeys == InitKeys /\ [][NextKeys]_vars

\* ------------------------------------------- calls of getGroupedTranslations
MaxObjects == 2
MaxProperties == 2

\* the keys of the service translations, <category>.<id>.<sign>, each with
\* its translation
GroupEntries ==
    {<<(<<"g", ".", "a", ".", "n">>), "A">>,
     <<(<<"g", ".", "a", ".", "d">>), "B">>,
     <<(<<"g", ".", "b", ".", "n">>), "C">>}

\* the keys of the entries of a sequence of entries, and of a file content
KeysOfObject(fileObject) == {fileObject[k][1] : k \in 1..Len(fileObject)}
KeysOfContent(fileObjects) ==
    UNION {KeysOfObject(fileObjects[k]) : k \in 1..Len(fileObjects)}
RECURSIVE EntryCount(_)
EntryCount(fileObjects) ==
    IF Len(fileObjects) = 0 THEN 0 ELSE Len(fileObjects[1]) + EntryCount(Tail(fileObjects))

\* the objects of a services.json: up to MaxProperties entries, of distinct keys
GroupObjects ==
    {o \in SeqsUpTo(GroupEntries, MaxProperties) : Cardinality(KeysOfObject(o)) = Len(o)}

\* services.json of a locale directory: missing, or an array of up to
\* MaxObjects objects whose keys are unique across the file
GroupFiles ==
    {NoFile} \cup
    {File(c) : c \in {f \in SeqsUpTo(GroupObjects, MaxObjects) :
                          Cardinality(KeysOfContent(f)) = EntryCount(f)}}

\* the orders in which readdir gives the locale directories
RECURSIVE Orders(_)
Orders(S) ==
    IF S = {} THEN {<<>>} ELSE UNION {{<<x>> \o o : o \in Orders(S \ {x})} : x \in S}

InitGroup ==
    /\ InitNoProcess /\ InitHashIdle /\ InitExpiresIdle /\ InitLocalesIdle
    /\ translationFiles \in [Locales -> GroupFiles]
    /\ groupedTranslations = Null

CallGetGroupedTranslations ==
    /\ groupedTranslations = Null
    /\ \E directories \in Orders(Locales) :
           groupedTranslations' =
               Resolved(getGroupedTranslations(translationFiles, directories))
    /\ UNCHANGED translationFiles
    /\ UNCHANGED <<buildVars, hashVars, expiresVars, localeVars>>

NextGroup == CallGetGroupedTranslations

SpecGroup == InitGroup /\ [][NextGroup]_vars

\* ================================================================== claims
\* the lists whose record the running build has emitted
Emitted == 1..Len(filtersMetadataDev)

\* the hash of the stored revision record of list j, undefined without one
StoredHash(j) == IF revisionFile[j] = NoFile THEN Undefined ELSE revisionFile[j].data.hash

\* the three files build writes for list j
ListFilesOf(j) == {RevisionFileOf(j), FilterFileOf(j), AssetsFilterFileOf(j)}

\* C1: the timeUpdated a run emits for a list differs from the one the catalog
\* of the previous run holds only if the run computed a hash that differs from
\* the stored one (and so rewrote the revision of the list)
C1_TimeUpdatedChangesOnlyWithHash ==
    (pc \in {"lists", "mastodon"} /\ filtersMetadataDevFile # NoFile) =>
        \A k \in Emitted :
            filtersMetadataDev[k].timeUpdated
                    # filtersMetadataDevFile.data.filters[k].timeUpdated
                => RevisionFileOf(k) \in written

\* C3: the three files of a list are rewritten only in the iteration of that
\* list, only when the hash just computed differs from the stored one, then
\* all three together with the new hash and the time of the run; with an equal
\* hash none of them changes
C3_RewrittenOnlyOnHashChange ==
    [][\A j \in Lists :
        LET compiledNow == /\ pc = "lists" /\ i = j
                           /\ j \in compilerCalls'
                           /\ hostlistCompiled' \notin CompileFailures
            touched == \/ revisionFile'[j] # revisionFile[j]
                       \/ filterFile'[j] # filterFile[j]
                       \/ assetsFilterFile'[j] # assetsFilterFile[j]
                       \/ ListFilesOf(j) \cap (written' \ written) # {}
        IN /\ touched =>
                /\ compiledNow
                /\ calculateRevisionHash(hostlistCompiled'.lines) # StoredHash(j)
                /\ ListFilesOf(j) \subseteq written'
                /\ revisionFile'[j] =
                       File([timeUpdated |-> now,
                             hash |-> calculateRevisionHash(hostlistCompiled'.lines)])
                /\ filterFile'[j] = File(join(hostlistCompiled'.lines, NewLine))
                /\ assetsFilterFile'[j] = filterFile'[j]
           /\ (compiledNow /\ calculateRevisionHash(hostlistCompiled'.lines) = StoredHash(j))
                => ~touched
      ]_vars

\* C3 witness: a list whose revision was rewritten later than an older one
\* (the compiled rules differ), next to a list compiled with an equal hash
C3_Witness ==
    /\ pc = "mastodon"
    /\ RevisionFileOf(1) \in written
    /\ revisionFile[1].data.timeUpdated = now
    /\ compilerCalls = {1, 2}
    /\ RevisionFileOf(2) \notin written
    /\ filterFile[2] = File(join(<<LastModified1, RuleA>>, NewLine))

\* C4: when the compiler throws for a list, build is rejected with an error
\* that names the list, the process exits with 1, no later list is compiled
\* and no catalog file is written in the run
C4_CompileFailureAborts ==
    hostlistCompiled \in CompileFailures =>
        /\ pc = "exited"
        /\ exitCode = Num(1)
        /\ buildError # Null
        /\ "id" \in DOMAIN buildError
        /\ buildError.id = metadata[i].id
        /\ i \in compilerCalls
        /\ \A j \in compilerCalls : j <= i
        /\ written \cap CatalogFileNames = {}
        /\ filtersMetadataFile = NoFile \/ FiltersMetadataFileName \notin written

\* C4 witness: the compiler threw for a list that is not the last one
C4_Witness ==
    /\ hostlistCompiled \in CompileFailures
    /\ i < NumLists
    /\ ~metadata[i + 1].disabled

\* C5: a run that ends in failure has written no file
C5_FailedRunWritesNothing ==
    exitCode = Num(1) => written = {}

\* the index of the list a catalog record is the record of
ListOfRecord(r) == CHOOSE j \in Lists : metadata[j].id = r.id

\* C7: after a successful build filters-dev.json holds one record for every list,
\* in the order of the lists, and filters.json the records among them of the
\* lists whose environment is "prod", in the same order
C7_CatalogPartition ==
    FiltersMetadataFileName \in written =>
        LET dev == filtersMetadataDevFile.data.filters
            prod == filtersMetadataFile.data.filters
        IN /\ Len(dev) = NumLists
           /\ \A j \in Lists : dev[j].id = metadata[j].id
           /\ prod = SelectSeq(dev,
                  LAMBDA r : metadata[ListOfRecord(r)].environment = "prod")

\* C7 witness: the catalogs of a run with a disabled "prod" list and a list
\* that is not "prod"
C7_Witness ==
    /\ FiltersMetadataFileName \in written
    /\ \E j \in Lists : metadata[j].disabled /\ metadata[j].environment = "prod"
    /\ \E j \in Lists : metadata[j].environment # "prod"
    /\ Len(filtersMetadataFile.data.filters) < Len(filtersMetadataDevFile.data.filters)
    /\ Len(filtersMetadataFile.data.filters) >= 1

\* C8: for a disabled list the compiler is not invoked, none of its three files
\* is written, the compiler cannot fail for it, and its record carries the
\* timeUpdated of its stored revision record
C8_DisabledIsFrozen ==
    \A j \in Lists : metadata[j].disabled =>
        /\ j \notin compilerCalls
        /\ ListFilesOf(j) \cap written = {}
        /\ (hostlistCompiled \in CompileFailures => i # j)
        /\ (j \in Emitted /\ revisionFile[j] # NoFile) =>
               filtersMetadataDev[j].timeUpdated = revisionFile[j].data.timeUpdated

\* C8 witness: the record of a disabled list with a stored revision record older
\* than the run, in a build that went through
C8_Witness ==
    /\ pc = "services"
    /\ \E j \in Lists :
        /\ metadata[j].disabled
        /\ revisionFile[j] # NoFile
        /\ revisionFile[j].data.timeUpdated < now
        /\ j \in Emitted

\* C9: the sourceUrl of every record a run emits is the URL of the single
\* source of the list's current configuration, and the homepage of the list
\* when the configuration has no source or more than one
C9_SourceUrl ==
    \A k \in Emitted :
        LET n == Len(configuration[k].sources)
        IN /\ n = 1 => filtersMetadataDev[k].sourceUrl = SourceOf(k, 1)
           /\ n = 0 => filtersMetadataDev[k].sourceUrl = HomepageOf(k)
           /\ n >= 2 => filtersMetadataDev[k].sourceUrl = HomepageOf(k)

\* C9 witness: a run after the sources were edited: a disabled list whose
\* sourceUrl differs from the one of the previous catalog and that has no
\* source, and a list with two sources
C9_Witness ==
    /\ pc = "mastodon"
    /\ filtersMetadataDevFile # NoFile
    /\ \E k \in Emitted :
        /\ metadata[k].disabled
        /\ Len(configuration[k].sources) = 0
        /\ filtersMetadataDev[k].sourceUrl
               # filtersMetadataDevFile.data.filters[k].sourceUrl
    /\ \E k \in Emitted : Len(configuration[k].sources) = 2

\* the lines of a compiled array that are no "last modified" line
RuleLinesOf(compiled) == SelectSeq(compiled, LAMBDA l : l \notin LastModifiedLines)

\* C2 as stated: two compiled arrays that differ only in their "last modified"
\* lines have the same hash, and two that differ in another line have
\* different hashed strings
C2_HashedDataFollowsRuleLines ==
    revisionA # Null =>
        /\ RuleLinesOf(compiledA) = RuleLinesOf(compiledB) => revisionA = revisionB
        /\ RuleLinesOf(compiledA) # RuleLinesOf(compiledB) => hashedA # hashedB

\* C2 amended: two compiled arrays that differ only in their "last modified"
\* lines have the same hash, and two that differ in another line have
\* different hashed strings unless one has no other line and the only other
\* line of the second is the empty line
C2_HashIgnoresLastModified ==
    revisionA # Null =>
        /\ RuleLinesOf(compiledA) = RuleLinesOf(compiledB) => revisionA = revisionB
        /\ (/\ RuleLinesOf(compiledA) # RuleLinesOf(compiledB)
            /\ {RuleLinesOf(compiledA), RuleLinesOf(compiledB)} # {<<>>, << <<>> >>})
               => hashedA # hashedB

\* C2 witness: the hashes of two arrays with the same rule under different
\* "last modified" lines, at different places
C2_Witness ==
    /\ compiledA = <<LastModified1, RuleA>>
    /\ compiledB = <<RuleA, LastModified2>>
    /\ revisionA # Null
    /\ revisionA = revisionB

\* the text of s after its leading digits
RECURSIVE DropDigits(_)
DropDigits(s) == IF Len(s) > 0 /\ s[1] \in Digits THEN DropDigits(Tail(s)) ELSE s

\* the seconds C6 gives for metadata.expires
ClaimedSeconds(expires) ==
    IF expires = Undefined \/ Len(expires.str) = 0 \/ expires.str[1] \notin Digits
    THEN 86400
    ELSE LET n == ParseDigits(expires.str, 0)
             unit == TrimStart(DropDigits(expires.str))
         IN IF unit \in {DayWord, DayWord \o <<"s">>} THEN n * 86400
            ELSE IF unit \in {HourWord, HourWord \o <<"s">>} THEN n * 3600
            ELSE 86400

\* C6: replaceExpires returns a number of seconds: n * 86400 for n days,
\* n * 3600 for n hours, 86400 for everything else
C6_ReplaceExpiresSeconds ==
    expiresResult # Null => expiresResult = Num(ClaimedSeconds(expiresArg))

\* the id and the field that the keys of the locale files stand for
KeyTable(key) ==
    CASE key = TagTwoDescription ->
             [id |-> <<"2">>, field |-> <<"d", "e", "s", "c", "r", "i", "p", "t", "i", "o", "n">>]
      [] key = HostlistOneName -> [id |-> <<"1">>, field |-> <<"n", "a", "m", "e">>]
      [] key = HostlistOneXName -> [id |-> <<"1">>, field |-> <<"n", "a", "m", "e">>]

\* the keys of the form <prefix><id>.<field>
WellFormedKeys == {TagTwoDescription, HostlistOneName}

\* the properties of the messages of a file, in the order of the file
RECURSIVE Flatten(_)
Flatten(messages) ==
    IF Len(messages) = 0 THEN <<>> ELSE messages[1] \o Flatten(Tail(messages))

PropertiesOf(file) == IF file = NoFile THEN <<>> ELSE Flatten(file.data)

\* the <<id, field, value>> entries that a mapping holds for a locale
EntriesOf(mapping, locale) ==
    UNION {{<<id, field, mapping[id][locale][field]>> : field \in DOMAIN mapping[id][locale]} :
               id \in {x \in DOMAIN mapping : locale \in DOMAIN mapping[x]}}

SameKey(k1, k2) == k1 = k2
SameIdAndField(k1, k2) == KeyTable(k1) = KeyTable(k2)

\* one file of a locale is folded into the result: the value of every
\* well-formed key of the file is in the mapping of the file's kind, under the
\* locale, unless a later property of the file collides with it; the entries
\* of the other locales and the mapping of the other kind are as before
LocaleValuesKept(Collides(_, _)) ==
    (currentItem # 0 /\ messagesJson # Undefined) =>
        LET kind == Items[currentItem].propName
            other == Items[3 - currentItem].propName
            props == PropertiesOf(messagesJson)
        IN /\ \A p \in 1..Len(props) :
                  (/\ props[p][1] \in WellFormedKeys
                   /\ \A q \in (p + 1)..Len(props) : ~Collides(props[q][1], props[p][1]))
                  => <<KeyTable(props[p][1]).id, KeyTable(props[p][1]).field, props[p][2]>>
                         \in EntriesOf(localeResult'[kind], currentLocale)
           /\ \A locale \in Locales \ {currentLocale} :
                  /\ EntriesOf(localeResult'.tags, locale) = EntriesOf(localeResult.tags, locale)
                  /\ EntriesOf(localeResult'.filters, locale)
                         = EntriesOf(localeResult.filters, locale)
           /\ localeResult'[other] = localeResult[other]

\* C10 as stated: every locale's value of every well-formed key is in the
\* result (the last occurrence of the key within its file), no entry of
\* another locale is overwritten or removed, and tags and filters do not leak
\* into each other's mapping
C10_EveryLocaleValueKept == [][LocaleValuesKept(SameKey)]_vars

\* C10 amended: every locale's value of every well-formed key is in the result
\* unless a later key of the same file stands for the same id and field (the
\* last of these wins), no entry of another locale is overwritten or
\* removed, and tags and filters do not leak into each other's mapping
C10_LocaleValuesKept == [][LocaleValuesKept(SameIdAndField)]_vars

\* C10 witness: two locales are loaded that give different values to the same
\* id and field of filters and a value to the same id and field of tags, and
\* the result holds each under its locale
C10_Witness ==
    /\ localesDone = {"de", "en"}
    /\ EntriesOf(localeResult.filters, "de") = {<<(<<"1">>), <<"n", "a", "m", "e">>, "A">>}
    /\ EntriesOf(localeResult.filters, "en") = {<<(<<"1">>), <<"n", "a", "m", "e">>, "B">>}
    /\ EntriesOf(localeResult.tags, "de") # {}
    /\ EntriesOf(localeResult.tags, "en") # {}

\* the positions of a key at which a prefix starts, and those of its dots
PrefixAt(key, prefix) ==
    {p \in 1..(Len(key) - Len(prefix) + 1) : SubSeq(key, p, p + Len(prefix) - 1) = prefix}
DotsOf(s) == {p \in 1..Len(s) : s[p] = "."}
Least(S) == CHOOSE x \in S : \A y \in S : x <= y
Greatest(S) == CHOOSE x \in S : \A y \in S : x >= y

\* the text of a key after its prefix
AfterPrefix(key, prefix) ==
    SubSeq(key, Least(PrefixAt(key, prefix)) + Len(prefix), Len(key))

\* the keys C11 has skipped: without the prefix, or with an id segment that is
\* empty or not terminated by a dot
ClaimedSkipped(key, prefix) ==
    \/ PrefixAt(key, prefix) = {}
    \/ DotsOf(AfterPrefix(key, prefix)) = {}
    \/ Least(DotsOf(AfterPrefix(key, prefix))) = 1

\* the id and the field C11 gives for the other keys
ClaimedId(key, prefix) ==
    SubSeq(AfterPrefix(key, prefix), 1, Least(DotsOf(AfterPrefix(key, prefix))) - 1)
ClaimedField(key) == SubSeq(key, Greatest(DotsOf(key)) + 1, Len(key))

\* C11: a key without the prefix of its file, or whose id segment is empty or
\* not terminated by a dot, adds no entry to the result; every other key adds
\* its value under the id between the prefix and the next dot and the field
\* after the last dot
C11_KeysSkippedOrParsed ==
    [][(currentItem # 0 /\ messagesJson \in KeyFiles) =>
        LET key == messagesJson.data[1][1][1]
            value == messagesJson.data[1][1][2]
            item == Items[currentItem]
        IN IF ClaimedSkipped(key, item.prefix)
           THEN localeResult' = localeResult
           ELSE /\ EntriesOf(localeResult'[item.propName], currentLocale)
                       = EntriesOf(localeResult[item.propName], currentLocale)
                             \cup {<<ClaimedId(key, item.prefix), ClaimedField(key), value>>}
                /\ \A kind \in {"tags", "filters"} \ {item.propName} :
                       localeResult'[kind] = localeResult[kind]
      ]_vars

\* builder.build has completed: it was not rejected, it went through every
\* list and wrote the catalogs
BuildCompleted ==
    /\ buildError = Null
    /\ Len(filtersMetadataDev) = NumLists
    /\ CatalogFileNames \subseteq written

\* C12: the process exits with 0 or 1; with 0 only when build completed and
\* buildServices completed its last step, with 1 whenever it ends otherwise;
\* buildServices takes a step only after build completed; and buildServices
\* changes services.json only in a step that has the validation behind it
C12_ExitCodes ==
    /\ [](/\ exitCode \in {Null, Num(0), Num(1)}
          /\ (pc = "exited") <=> (exitCode # Null)
          /\ exitCode = Num(0) => (BuildCompleted /\ servicesStep = WriteStep)
          /\ (pc = "exited" /\ ~(BuildCompleted /\ servicesStep = WriteStep))
                 => exitCode = Num(1)
          /\ (servicesStep > 0 \/ pc = "services_merge") => BuildCompleted)
    /\ [][/\ (pc \in {"services", "services_merge"} /\ servicesFile' # servicesFile)
                  => servicesStep' >= ValidateStep
          /\ (servicesStep' # servicesStep /\ servicesStep' # 0) => BuildCompleted
         ]_vars

\* C12 witness: the process has exited with 0 after buildServices replaced
\* the services.json that build had written
C12_Witness ==
    /\ pc = "exited"
    /\ exitCode = Num(0)
    /\ servicesStep = WriteStep
    /\ OtherServiceSource \in {servicesFile.data.blocked_services[k] :
                                   k \in 1..Len(servicesFile.data.blocked_services)}

\* the id and the sign that the keys of the service translations stand for
GroupKeyTable(key) ==
    CASE key = <<"g", ".", "a", ".", "n">> -> [id |-> <<"a">>, sign |-> <<"n">>]
      [] key = <<"g", ".", "a", ".", "d">> -> [id |-> <<"a">>, sign |-> <<"d">>]
      [] key = <<"g", ".", "b", ".", "n">> -> [id |-> <<"b">>, sign |-> <<"n">>]

\* C13: for every locale directory that has a services.json, the result holds
\* under every id and the locale exactly the signs that have a key of that id
\* in the file, each with the value of its key
C13_GroupedByIdLocaleSign ==
    groupedTranslations # Null =>
        \A locale \in Locales :
            translationFiles[locale] # NoFile =>
                EntriesOf(groupedTranslations.resolved, locale)
                    = {<<GroupKeyTable(e[1]).id, GroupKeyTable(e[1]).sign, e[2]>> :
                           e \in {Flatten(translationFiles[locale].data)[k] :
                                      k \in 1..Len(Flatten(translationFiles[locale].data))}}

====
